---- MODULE Spec2Model ----
(***************************************************************************)
(* Model of the EVM runtime step driver (runtime/src/lib.rs) and of the    *)
(* environment opcodes (runtime/src/eval/system.rs).                       *)
(*                                                                         *)
(* The Runtime owns a Machine (stack, memory, position), a status, a       *)
(* return_data_buffer and a Context.  The Handler is the host: every call  *)
(* the runtime makes to it is answered nondeterministically and is         *)
(* recorded, with its arguments and its answer, in hcalls.                 *)
(*                                                                         *)
(* The code of a frame is a sequence of at most MaxBlocks instruction       *)
(* blocks; a block pushes operands and then runs one opcode.  A block and  *)
(* the immediates of its pushes are drawn when the position reaches them.  *)
(***************************************************************************)
EXTENDS Integers, Sequences, FiniteSets, TLC

VARIABLES
    machine,             \* Runtime.machine: [stack, memory, position]
    status,              \* Runtime.status: Result<(), ExitReason>
    return_data_buffer,  \* Runtime.return_data_buffer: Vec<u8>
    context,             \* Runtime.context
    program,             \* the instructions from the current position on
    fetched,             \* number of instruction blocks the code has shown so far
    running,             \* TRUE while a run() invocation is inside its loop
    suspended,           \* the Resolve handle that borrows the runtime, if any
    panicked,            \* TRUE once an arithmetic overflow check has aborted
    opcode,              \* opcode seen by inspect() in the last macro expansion
    hcalls,              \* handler calls made by the last macro expansion
    ret,                 \* what the last invocation returned
    twin                 \* a second Runtime on the same code and host, driven by
                         \* step() only, one invocation per expansion of the first

vars == <<machine, status, return_data_buffer, context, program, fetched, running,
          suspended, panicked, opcode, hcalls, ret, twin>>

----------------------------------------------------------------------------
(* Widths and limits *)

\* width of the native index type usize
UsizeBits == 12
\* width of an address (H160), narrower than a word, wider than usize
AddrBits == 20
\* Config.stack_limit of the frame
StackLimit == 8
\* number of instruction blocks in the code of a frame
MaxBlocks == 2
\* Config.memory_limit of the frame
MemoryLimit == 1
\* Config.call_stipend
call_stipend == 2300

USIZE_MAX == 2^UsizeBits - 1
AddrMod == 2^AddrBits
\* a word that fits neither a usize nor an address
BigWord == AddrMod + 1

\* the byte strings a nested call can return
ReturnDatas == {<<>>, <<1>>}

config == [stack_limit |-> StackLimit, memory_limit |-> MemoryLimit,
           call_stipend |-> call_stipend]

----------------------------------------------------------------------------
(* Exit reasons: ExitReason = Result<ExitSucceed, ExitError> *)

Succeed(s) == [ok |-> TRUE, v |-> s]
Error(e) == [ok |-> FALSE, v |-> e]

\* errors the host can answer with
HostErrors == {"OutOfGas", "Other"}
\* exit reasons a completed child frame can have
ChildReasons == {Succeed("Returned"), Error("OutOfGas")}

ResOk == [tag |-> "Ok"]
ResErr(e) == [tag |-> "Err", error |-> e]
UnitResults == {ResOk} \cup {ResErr(e) : e \in HostErrors}

StatusOk == [tag |-> "Ok"]
StatusErr(r) == [tag |-> "Err", exit |-> r]

\* Control<H> of the environment opcodes
Continue == [tag |-> "Continue"]
Exit(r) == [tag |-> "Exit", exit |-> r]
CallInterrupt(i) == [tag |-> "CallInterrupt", interrupt |-> i]
CreateInterrupt(i) == [tag |-> "CreateInterrupt", interrupt |-> i]
\* an overflow check of the build aborted the opcode
Panic == [tag |-> "Panic"]

HCall(f, a, r) == [fn |-> f, args |-> a, result |-> r]

----------------------------------------------------------------------------
(* Conversions *)

\* H256 -> H160: the low 20 bytes of the word
AddressOf(w) == w % AddrMod
\* as_usize_or_fail!: the word fits a native index
FitsUsize(w) == w <= USIZE_MAX

Min(a, b) == IF a < b THEN a ELSE b
Max(a, b) == IF a > b THEN a ELSE b

----------------------------------------------------------------------------
(* Stack: top of the stack is the last element *)

Top(s) == s[Len(s)]
\* the n-th word from the top, n = 1 is the top
Peek(s, n) == s[Len(s) + 1 - n]
DropN(s, n) == SubSeq(s, 1, Len(s) - n)
\* pop!/pop_u256!: n pops in a row; a pop of the empty stack exits with
\* StackUnderflow after the earlier pops have emptied the stack
HasN(s, n) == Len(s) >= n
\* push!/push_u256!
CanPush(s) == Len(s) < config.stack_limit

----------------------------------------------------------------------------
(* Memory: a byte vector of at most memory_limit bytes.  A slice read from *)
(* memory is kept as its length and its bytes up to the last non-zero one. *)

RECURSIVE Trim(_)
Trim(d) == IF d = <<>> \/ d[Len(d)] # 0 THEN d ELSE Trim(SubSeq(d, 1, Len(d) - 1))

get(mem, offset, size) ==
    LET n == Max(0, Min(size, Len(mem) - offset))
    IN  [len |-> size, data |-> Trim([i \in 1..n |-> mem[offset + i]])]

Resize(mem, n) == [i \in 1..Max(Len(mem), n) |-> IF i <= Len(mem) THEN mem[i] ELSE 0]

SetOk(offset, target_size) ==
    /\ offset + target_size <= USIZE_MAX
    /\ offset + target_size <= config.memory_limit

\* writes the first min(len(value), target_size) bytes of value at offset
set(mem, offset, value, target_size) ==
    LET m == Resize(mem, IF target_size = 0 THEN 0 ELSE offset + target_size)
        n == Min(Len(value), target_size)
    IN  [i \in 1..Len(m) |-> IF i > offset /\ i <= offset + n THEN value[i - offset] ELSE m[i]]

CopyLargeOk(memory_offset, len) ==
    /\ FitsUsize(memory_offset)
    /\ FitsUsize(len)
    /\ SetOk(memory_offset, len)

\* the destination gets the source bytes where the source has some and
\* zeros beyond the source's length
copy_large(mem, memory_offset, data_offset, len, data) ==
    LET m == Resize(mem, IF len = 0 THEN 0 ELSE memory_offset + len)
    IN  [i \in 1..Len(m) |->
            IF i > memory_offset /\ i <= memory_offset + len
            THEN (IF data_offset + (i - memory_offset) <= Len(data)
                  THEN data[data_offset + (i - memory_offset)] ELSE 0)
            ELSE m[i]]

----------------------------------------------------------------------------
(* Keccak-256, as a deterministic digest of a sequence of numbers *)

HashMod == 4 * AddrMod

RECURSIVE Digest(_, _)
Digest(acc, xs) ==
    IF xs = <<>> THEN acc
    ELSE Digest((acc * 31 + xs[1] + 1) % HashMod, SubSeq(xs, 2, Len(xs)))

Keccak256(xs) == Digest(7, xs)
\* digest of a memory slice
KeccakSlice(sl) == Keccak256(<<sl.len>> \o sl.data)

----------------------------------------------------------------------------
(* Machine: the inner machine of the frame *)

Opcodes == {"PUSH", "POP", "STOP", "SHA3", "RETURNDATASIZE", "RETURNDATACOPY",
            "SSTORE", "LOG0", "LOG1", "LOG2", "LOG3", "LOG4", "SUICIDE",
            "CREATE", "CREATE2", "CALL", "CALLCODE", "DELEGATECALL", "STATICCALL"}
\* no opcode: the position is past the end of the code
NONE == "NONE"

PositionOk == [tag |-> "Ok"]
PositionErr(r) == [tag |-> "Err", exit |-> r]

\* Machine::new
new_machine == [stack |-> <<>>, memory |-> <<>>, position |-> PositionOk]

\* Machine::exit
exit(m, reason) == [m EXCEPT !.position = PositionErr(reason)]

\* Machine::inspect
inspect(m, opc) == m.position.tag = "Ok" /\ opc # NONE

\* Machine::step: runs one opcode of the inner machine; opcodes it does not
\* know are handed back as a trap
machine_step(m, opc, imm) ==
    IF m.position.tag = "Err"
    THEN [machine |-> m, result |-> Exit(m.position.exit)]
    ELSE CASE opc = NONE ->
                [machine |-> exit(m, Succeed("Stopped")), result |-> Exit(Succeed("Stopped"))]
           [] opc = "STOP" ->
                [machine |-> exit(m, Succeed("Stopped")), result |-> Exit(Succeed("Stopped"))]
           [] opc = "PUSH" ->
                IF CanPush(m.stack)
                THEN [machine |-> [m EXCEPT !.stack = Append(m.stack, imm)], result |-> ResOk]
                ELSE [machine |-> exit(m, Error("StackOverflow")),
                      result |-> Exit(Error("StackOverflow"))]
           [] opc = "POP" ->
                IF HasN(m.stack, 1)
                THEN [machine |-> [m EXCEPT !.stack = DropN(m.stack, 1)], result |-> ResOk]
                ELSE [machine |-> exit(m, Error("StackUnderflow")),
                      result |-> Exit(Error("StackUnderflow"))]
           [] OTHER -> [machine |-> m, result |-> [tag |-> "Trap", opcode |-> opc]]

----------------------------------------------------------------------------
(* Environment opcodes.  Each takes the runtime rt = [machine,              *)
(* return_data_buffer, context, overflow_checks] and the handler's answers  *)
(* h, and yields the runtime's new machine and buffer, the Control value    *)
(* and the handler calls it made.                                           *)

Res(m, rdb, c, hc) ==
    [machine |-> m, return_data_buffer |-> rdb, control |-> c, hcalls |-> hc]

WithStack(m, s) == [m EXCEPT !.stack = s]

\* push!/push_u256! of w, then the control c
PushThen(m, w, rdb, c, hc) ==
    IF CanPush(m.stack)
    THEN Res(WithStack(m, Append(m.stack, w)), rdb, c, hc)
    ELSE Res(m, rdb, Exit(Error("StackOverflow")), hc)

Underflow(rt, hc) ==
    Res(WithStack(rt.machine, <<>>), rt.return_data_buffer,
        Exit(Error("StackUnderflow")), hc)

sha3(rt, h) ==
    LET s == rt.machine.stack IN
    IF ~HasN(s, 2) THEN Underflow(rt, <<>>)
    ELSE LET from == Peek(s, 1)
             len == Peek(s, 2)
             m == WithStack(rt.machine, DropN(s, 2))
         IN  IF ~FitsUsize(from) \/ ~FitsUsize(len)
             THEN Res(m, rt.return_data_buffer, Exit(Error("NotSupported")), <<>>)
             ELSE PushThen(m, KeccakSlice(get(rt.machine.memory, from, len)),
                           rt.return_data_buffer, Continue, <<>>)

returndatasize(rt, h) ==
    PushThen(rt.machine, Len(rt.return_data_buffer), rt.return_data_buffer, Continue, <<>>)

returndatacopy(rt, h) ==
    LET s == rt.machine.stack IN
    IF ~HasN(s, 3) THEN Underflow(rt, <<>>)
    ELSE LET memory_offset == Peek(s, 1)
             data_offset == Peek(s, 2)
             len == Peek(s, 3)
             m == WithStack(rt.machine, DropN(s, 3))
         IN  IF CopyLargeOk(memory_offset, len)
             THEN Res([m EXCEPT !.memory = copy_large(m.memory, memory_offset, data_offset,
                                                       len, rt.return_data_buffer)],
                      rt.return_data_buffer, Continue, <<>>)
             ELSE Res(m, rt.return_data_buffer, Exit(Error("NotSupported")), <<>>)

\* sstore with the host-error policy of CREATE and CALL applied to a failed
\* set_storage: a recoverable error lets the frame go on
sstore_recoverable(rt, h) ==
    LET s == rt.machine.stack IN
    IF ~HasN(s, 2) THEN Underflow(rt, <<>>)
    ELSE LET m == WithStack(rt.machine, DropN(s, 2))
             hc == <<HCall("set_storage",
                           [address |-> rt.context.address, index |-> Peek(s, 1),
                            value |-> Peek(s, 2)],
                           h.set_storage)>>
         IN  IF h.set_storage.tag = "Ok" \/ h.is_recoverable
             THEN Res(m, rt.return_data_buffer, Continue, hc)
             ELSE Res(m, rt.return_data_buffer, Exit(Error(h.set_storage.error)), hc)

sstore(rt, h) ==
    LET s == rt.machine.stack IN
    IF ~HasN(s, 2) THEN Underflow(rt, <<>>)
    ELSE LET index == Peek(s, 1)
             value == Peek(s, 2)
             m == WithStack(rt.machine, DropN(s, 2))
             hc == <<HCall("set_storage",
                           [address |-> rt.context.address, index |-> index, value |-> value],
                           h.set_storage)>>
         IN  IF h.set_storage.tag = "Ok"
             THEN Res(m, rt.return_data_buffer, Continue, hc)
             ELSE Res(m, rt.return_data_buffer, Exit(Error(h.set_storage.error)), hc)

\* the n topics, the one popped last first
Topics_reversed(s, n) == [i \in 1..n |-> Peek(s, n + 1 - i)]

\* the n topics, in the order they are popped from the stack s
Topics(s, n) == [i \in 1..n |-> Peek(s, i)]

log(rt, n, h) ==
    LET s == rt.machine.stack IN
    IF ~HasN(s, 2) THEN Underflow(rt, <<>>)
    ELSE LET offset == Peek(s, 1)
             len == Peek(s, 2)
             s1 == DropN(s, 2)
         IN  IF ~FitsUsize(offset) \/ ~FitsUsize(len)
             THEN Res(WithStack(rt.machine, s1), rt.return_data_buffer,
                      Exit(Error("NotSupported")), <<>>)
             ELSE IF ~HasN(s1, n) THEN Underflow(rt, <<>>)
             ELSE LET data == get(rt.machine.memory, offset, len)
                      hc == <<HCall("log",
                                    [address |-> rt.context.address,
                                     topics |-> Topics(s1, n), data |-> data],
                                    h.log)>>
                      m == WithStack(rt.machine, DropN(s1, n))
                  IN  IF h.log.tag = "Ok"
                      THEN Res(m, rt.return_data_buffer, Continue, hc)
                      ELSE Res(m, rt.return_data_buffer, Exit(Error(h.log.error)), hc)

\* suicide that marks the account deleted whether or not the transfer
\* succeeded
suicide_deletes_first(rt, h) ==
    LET s == rt.machine.stack IN
    IF ~HasN(s, 1) THEN Underflow(rt, <<>>)
    ELSE LET m == WithStack(rt.machine, DropN(s, 1))
             hb == HCall("balance", [address |-> rt.context.address], [value |-> h.balance])
             ht == HCall("transfer",
                         [source |-> rt.context.address, target |-> AddressOf(Peek(s, 1)),
                          value |-> h.balance],
                         h.transfer)
             hm == HCall("mark_delete", [address |-> rt.context.address], h.mark_delete)
         IN  IF h.mark_delete.tag = "Err"
             THEN Res(m, rt.return_data_buffer, Exit(Error(h.mark_delete.error)),
                      <<hb, ht, hm>>)
             ELSE IF h.transfer.tag = "Err"
             THEN Res(m, rt.return_data_buffer, Exit(Error(h.transfer.error)),
                      <<hb, ht, hm>>)
             ELSE Res(m, rt.return_data_buffer, Exit(Succeed("Suicided")), <<hb, ht, hm>>)

suicide(rt, h) ==
    LET s == rt.machine.stack IN
    IF ~HasN(s, 1) THEN Underflow(rt, <<>>)
    ELSE LET target == Peek(s, 1)
             m == WithStack(rt.machine, DropN(s, 1))
             hb == HCall("balance", [address |-> rt.context.address], [value |-> h.balance])
             ht == HCall("transfer",
                         [source |-> rt.context.address, target |-> AddressOf(target),
                          value |-> h.balance],
                         h.transfer)
             hm == HCall("mark_delete", [address |-> rt.context.address], h.mark_delete)
         IN  IF h.transfer.tag = "Err"
             THEN Res(m, rt.return_data_buffer, Exit(Error(h.transfer.error)), <<hb, ht>>)
             ELSE IF h.mark_delete.tag = "Err"
             THEN Res(m, rt.return_data_buffer, Exit(Error(h.mark_delete.error)),
                      <<hb, ht, hm>>)
             ELSE Res(m, rt.return_data_buffer, Exit(Succeed("Suicided")), <<hb, ht, hm>>)

\* the host-error arm without the is_recoverable() branch: always fatal
HostError_always_fatal(m, rdb, e, h, hc) ==
    PushThen(m, 0, rdb, Exit(Error(e)),
             Append(hc, HCall("is_recoverable", [none |-> TRUE], [value |-> h.is_recoverable])))

\* Err(e) of create_address, create or call: push zero, then the policy
HostError(m, rdb, e, h, hc) ==
    PushThen(m, 0, rdb,
             IF h.is_recoverable THEN Continue ELSE Exit(Error(e)),
             Append(hc, HCall("is_recoverable", [none |-> TRUE], [value |-> h.is_recoverable])))

Dynamic == [tag |-> "Dynamic"]
Fixed(a) == [tag |-> "Fixed", address |-> a]

\* the CREATE2 target with the salt left out of the hash
Create2Target_without_salt(address, salt, code) ==
    AddressOf(Keccak256(<<255, address, KeccakSlice(code)>>))

\* the CREATE2 target: Keccak256(0xff, context.address, salt, Keccak256(code))
Create2Target(address, salt, code) ==
    AddressOf(Keccak256(<<255, address, salt, KeccakSlice(code)>>))

NoTransfer == [tag |-> "None"]
SomeTransfer(src, tgt, v) == [tag |-> "Some", source |-> src, target |-> tgt, value |-> v]

\* create_result that empties return_data_buffer when the create exits
create_result_clears_buffer(m, rdb, create_address, h, hc) ==
    CASE h.create.tag = "Exit" -> PushThen(m, create_address, <<>>, Continue, hc)
      [] h.create.tag = "Trap" ->
            PushThen(m, 0, rdb, CreateInterrupt(h.create.interrupt), hc)
      [] OTHER -> HostError(m, rdb, h.create.error, h, hc)

\* create_result whose Trap arm pushes the address as the Exit arm does
create_result_trap_pushes_address(m, rdb, create_address, h, hc) ==
    CASE h.create.tag = "Exit" -> PushThen(m, create_address, rdb, Continue, hc)
      [] h.create.tag = "Trap" ->
            PushThen(m, create_address, rdb, CreateInterrupt(h.create.interrupt), hc)
      [] OTHER -> HostError(m, rdb, h.create.error, h, hc)

\* the arms of "match handler.create(...)": m is the machine after the
\* pops, hc the calls made
create_result(m, rdb, create_address, h, hc) ==
    CASE h.create.tag = "Exit" -> PushThen(m, create_address, rdb, Continue, hc)
      [] h.create.tag = "Trap" ->
            PushThen(m, 0, rdb, CreateInterrupt(h.create.interrupt), hc)
      [] OTHER -> HostError(m, rdb, h.create.error, h, hc)

create(rt, is_create2, h) ==
    LET s == rt.machine.stack
        rdb == rt.return_data_buffer
    IN
    IF ~HasN(s, 3) THEN Underflow(rt, <<>>)
    ELSE
    LET value == Peek(s, 1)
        code_offset == Peek(s, 2)
        len == Peek(s, 3)
        s1 == DropN(s, 3)
    IN
    IF ~FitsUsize(code_offset) \/ ~FitsUsize(len)
    THEN Res(WithStack(rt.machine, s1), rdb, Exit(Error("NotSupported")), <<>>)
    ELSE IF is_create2 /\ ~HasN(s1, 1) THEN Underflow(rt, <<>>)
    ELSE
    LET code == get(rt.machine.memory, code_offset, len)
        scheme == IF is_create2
                  THEN Fixed(Create2Target(rt.context.address, Peek(s1, 1), code))
                  ELSE Dynamic
        m == WithStack(rt.machine, IF is_create2 THEN DropN(s1, 1) ELSE s1)
        ha == HCall("create_address", [address |-> rt.context.address, scheme |-> scheme],
                    h.create_address)
    IN
    IF h.create_address.tag = "Err"
    THEN HostError(m, rdb, h.create_address.error, h, <<ha>>)
    ELSE
    LET create_address == h.create_address.address
        child == [address |-> create_address, caller |-> rt.context.address,
                  apparent_value |-> value]
        transfer == SomeTransfer(rt.context.address, create_address, value)
        hcr == HCall("create",
                     [address |-> create_address, transfer |-> transfer, code |-> code,
                      context |-> child],
                     h.create)
    IN
    create_result(m, rdb, create_address, h, <<ha, hcr>>)

HasValue(scheme) == scheme \in {"Call", "CallCode"}

\* call whose DELEGATECALL context names the frame itself as the caller
call_context_delegate_as_callcode(self, scheme, to, value) ==
    CASE scheme \in {"Call", "StaticCall"} ->
            [address |-> AddressOf(to), caller |-> self.address, apparent_value |-> value]
      [] OTHER ->
            [address |-> self.address, caller |-> self.address, apparent_value |-> value]

\* "let context = match scheme": the context of the child frame
call_context(self, scheme, to, value) ==
    CASE scheme \in {"Call", "StaticCall"} ->
            [address |-> AddressOf(to), caller |-> self.address, apparent_value |-> value]
      [] scheme = "CallCode" ->
            [address |-> self.address, caller |-> self.address, apparent_value |-> value]
      [] OTHER ->
            [address |-> self.address, caller |-> self.caller,
             apparent_value |-> self.apparent_value]

\* "let transfer = if scheme == ...": the transfer that goes with the call
call_transfer(self, scheme, to, value) ==
    CASE scheme = "Call" -> SomeTransfer(self.address, AddressOf(to), value)
      [] scheme = "CallCode" -> SomeTransfer(self.address, self.address, value)
      [] OTHER -> NoTransfer

\* call_result that pushes no word when the output write fails
call_result_failed_write_pushes_nothing(m, rdb, out_offset, out_len, h, hca) ==
    CASE h.call.tag = "Exit" ->
            IF SetOk(out_offset, out_len)
            THEN PushThen([m EXCEPT !.memory = set(m.memory, out_offset, h.call.data, out_len)],
                          1, h.call.data, Continue, <<hca>>)
            ELSE Res(m, h.call.data,
                     IF h.is_recoverable THEN Continue ELSE Exit(Error("NotSupported")),
                     <<hca, HCall("is_recoverable", [none |-> TRUE],
                                  [value |-> h.is_recoverable])>>)
      [] h.call.tag = "Trap" ->
            PushThen(m, 0, rdb, CallInterrupt(h.call.interrupt), <<hca>>)
      [] OTHER -> HostError(m, rdb, h.call.error, h, <<hca>>)

\* call_result that records the returned bytes only once the output write
\* has succeeded
call_result_records_after_write(m, rdb, out_offset, out_len, h, hca) ==
    CASE h.call.tag = "Exit" ->
            IF SetOk(out_offset, out_len)
            THEN PushThen([m EXCEPT !.memory = set(m.memory, out_offset, h.call.data, out_len)],
                          1, h.call.data, Continue, <<hca>>)
            ELSE HostError(m, rdb, "NotSupported", h, <<hca>>)
      [] h.call.tag = "Trap" ->
            PushThen(m, 0, rdb, CallInterrupt(h.call.interrupt), <<hca>>)
      [] OTHER -> HostError(m, rdb, h.call.error, h, <<hca>>)

\* the arms of "match handler.call(...)": m is the machine after the pops,
\* hca the call made
call_result(m, rdb, out_offset, out_len, h, hca) ==
    CASE h.call.tag = "Exit" ->
            IF SetOk(out_offset, out_len)
            THEN PushThen([m EXCEPT !.memory = set(m.memory, out_offset, h.call.data, out_len)],
                          1, h.call.data, Continue, <<hca>>)
            ELSE HostError(m, h.call.data, "NotSupported", h, <<hca>>)
      [] h.call.tag = "Trap" ->
            PushThen(m, 0, rdb, CallInterrupt(h.call.interrupt), <<hca>>)
      [] OTHER -> HostError(m, rdb, h.call.error, h, <<hca>>)

call(rt, scheme, h) ==
    LET s == rt.machine.stack
        rdb == rt.return_data_buffer
        self == rt.context
    IN
    IF ~HasN(s, 2) THEN Underflow(rt, <<>>)
    ELSE
    LET gas0 == Peek(s, 1)
        to == Peek(s, 2)
        s1 == DropN(s, 2)
    IN
    IF ~FitsUsize(gas0)
    THEN Res(WithStack(rt.machine, s1), rdb, Exit(Error("NotSupported")), <<>>)
    ELSE IF HasValue(scheme) /\ ~HasN(s1, 1) THEN Underflow(rt, <<>>)
    ELSE
    LET value == IF HasValue(scheme) THEN Peek(s1, 1) ELSE 0
        s2 == IF HasValue(scheme) THEN DropN(s1, 1) ELSE s1
        sum == IF value # 0 THEN gas0 + rt.config.call_stipend ELSE gas0
        \* gas += call_stipend on a usize
        gas == sum % (USIZE_MAX + 1)
    IN
    IF sum > USIZE_MAX /\ rt.overflow_checks
    THEN Res(WithStack(rt.machine, s2), rdb, Panic, <<>>)
    ELSE IF ~HasN(s2, 4) THEN Underflow(rt, <<>>)
    ELSE
    LET in_offset == Peek(s2, 1)
        in_len == Peek(s2, 2)
        out_offset == Peek(s2, 3)
        out_len == Peek(s2, 4)
        m == WithStack(rt.machine, DropN(s2, 4))
    IN
    IF ~FitsUsize(in_offset) \/ ~FitsUsize(in_len) \/ ~FitsUsize(out_offset)
       \/ ~FitsUsize(out_len)
    THEN Res(m, rdb, Exit(Error("NotSupported")), <<>>)
    ELSE
    LET input == get(rt.machine.memory, in_offset, in_len)
        child == call_context(self, scheme, to, value)
        transfer == call_transfer(self, scheme, to, value)
        hca == HCall("call",
                     [code_address |-> AddressOf(to), transfer |-> transfer,
                      input |-> input, target_gas |-> gas,
                      is_static |-> (scheme = "StaticCall"), context |-> child],
                     h.call)
    IN
    call_result(m, rdb, out_offset, out_len, h, hca)

SchemeOf(opc) ==
    CASE opc = "CALL" -> "Call"
      [] opc = "CALLCODE" -> "CallCode"
      [] opc = "DELEGATECALL" -> "DelegateCall"
      [] opc = "STATICCALL" -> "StaticCall"

LogN(opc) ==
    CASE opc = "LOG0" -> 0 [] opc = "LOG1" -> 1 [] opc = "LOG2" -> 2
      [] opc = "LOG3" -> 3 [] opc = "LOG4" -> 4

CallOps == {"CALL", "CALLCODE", "DELEGATECALL", "STATICCALL"}
CreateOps == {"CREATE", "CREATE2"}
LogOps == {"LOG0", "LOG1", "LOG2", "LOG3", "LOG4"}

\* eval::eval: the dispatch on the trapped opcode
eval(rt, opc, h) ==
    CASE opc = "SHA3" -> sha3(rt, h)
      [] opc = "RETURNDATASIZE" -> returndatasize(rt, h)
      [] opc = "RETURNDATACOPY" -> returndatacopy(rt, h)
      [] opc = "SSTORE" -> sstore(rt, h)
      [] opc \in LogOps -> log(rt, LogN(opc), h)
      [] opc = "SUICIDE" -> suicide(rt, h)
      [] opc = "CREATE" -> create(rt, FALSE, h)
      [] opc = "CREATE2" -> create(rt, TRUE, h)
      [] opc \in CallOps -> call(rt, SchemeOf(opc), h)

----------------------------------------------------------------------------
(* The step! macro: one expansion on the runtime rt, with opc the opcode at *)
(* the current position (NONE past the end of the code), imm its immediate  *)
(* and h the handler's answers.                                             *)

RetOk == [tag |-> "Ok"]
RetExit(r) == [tag |-> "Exit", exit |-> r]
RetTrap(k, i) == [tag |-> "Trap", kind |-> k, interrupt |-> i]
RetPanic == [tag |-> "Panic"]

Out(m, st, rdb, opc, hc, r) ==
    [machine |-> m, status |-> st, return_data_buffer |-> rdb, opcode |-> opc,
     hcalls |-> hc, ret |-> r]

\* after_eval whose Exit arm sets the status but leaves the machine running
after_eval_machine_not_exited(ev, st, op, hpv) ==
    Out(ev.machine,
        IF ev.control.tag = "Exit" THEN StatusErr(ev.control.exit) ELSE st,
        ev.return_data_buffer, op, hpv \o ev.hcalls,
        CASE ev.control.tag = "Continue" -> RetOk
          [] ev.control.tag = "CallInterrupt" -> RetTrap("Call", ev.control.interrupt)
          [] ev.control.tag = "CreateInterrupt" -> RetTrap("Create", ev.control.interrupt)
          [] ev.control.tag = "Exit" -> RetExit(ev.control.exit)
          [] OTHER -> RetPanic)

\* after_eval that wraps every interrupt in a Call resolve
after_eval_every_trap_a_call(ev, st, op, hpv) ==
    CASE ev.control.tag = "Continue" ->
            Out(ev.machine, st, ev.return_data_buffer, op, hpv \o ev.hcalls, RetOk)
      [] ev.control.tag \in {"CallInterrupt", "CreateInterrupt"} ->
            Out(ev.machine, st, ev.return_data_buffer, op, hpv \o ev.hcalls,
                RetTrap("Call", ev.control.interrupt))
      [] ev.control.tag = "Exit" ->
            Out(exit(ev.machine, ev.control.exit), StatusErr(ev.control.exit),
                ev.return_data_buffer, op, hpv \o ev.hcalls, RetExit(ev.control.exit))
      [] OTHER ->
            Out(ev.machine, st, ev.return_data_buffer, op, hpv \o ev.hcalls, RetPanic)

\* the arms of "match eval::eval(...)": what the step returns for the
\* outcome ev of the environment opcode; hpv is the pre_validate call
after_eval(ev, st, op, hpv) ==
    CASE ev.control.tag = "Continue" ->
            Out(ev.machine, st, ev.return_data_buffer, op, hpv \o ev.hcalls, RetOk)
      [] ev.control.tag = "CallInterrupt" ->
            Out(ev.machine, st, ev.return_data_buffer, op, hpv \o ev.hcalls,
                RetTrap("Call", ev.control.interrupt))
      [] ev.control.tag = "CreateInterrupt" ->
            Out(ev.machine, st, ev.return_data_buffer, op, hpv \o ev.hcalls,
                RetTrap("Create", ev.control.interrupt))
      [] ev.control.tag = "Exit" ->
            Out(exit(ev.machine, ev.control.exit), StatusErr(ev.control.exit),
                ev.return_data_buffer, op, hpv \o ev.hcalls, RetExit(ev.control.exit))
      [] OTHER ->
            Out(ev.machine, st, ev.return_data_buffer, op, hpv \o ev.hcalls, RetPanic)

\* after_machine_step whose Exit arm returns the exit without recording it
\* in the status
after_machine_step_status_not_set(ms, rt, op, h, hpv) ==
    CASE ms.result.tag = "Ok" ->
            Out(ms.machine, rt.status, rt.return_data_buffer, op, hpv, RetOk)
      [] ms.result.tag = "Exit" ->
            Out(ms.machine, rt.status, rt.return_data_buffer, op, hpv,
                RetExit(ms.result.exit))
      [] OTHER ->
            after_eval(eval([rt EXCEPT !.machine = ms.machine], ms.result.opcode, h),
                       rt.status, op, hpv)

\* the arms of "match $self.machine.step()": ms is what the machine did
after_machine_step(ms, rt, op, h, hpv) ==
    CASE ms.result.tag = "Ok" ->
            Out(ms.machine, rt.status, rt.return_data_buffer, op, hpv, RetOk)
      [] ms.result.tag = "Exit" ->
            Out(ms.machine, StatusErr(ms.result.exit), rt.return_data_buffer, op, hpv,
                RetExit(ms.result.exit))
      [] OTHER ->
            after_eval(eval([rt EXCEPT !.machine = ms.machine], ms.result.opcode, h),
                       rt.status, op, hpv)

\* "match $self.status.clone()" and what follows it, on the runtime rt1 that
\* pre-validation left
after_pre_validate(rt1, op, imm, h, hpv) ==
    IF rt1.status.tag = "Err"
    THEN Out(rt1.machine, rt1.status, rt1.return_data_buffer, op, hpv,
             RetExit(rt1.status.exit))
    ELSE after_machine_step(machine_step(rt1.machine, op, imm), rt1, op, h, hpv)

\* the call of handler.pre_validate and its answer
PreValidate(rt, opc, h) ==
    <<HCall("pre_validate",
            [context |-> rt.context, opcode |-> opc, stack |-> rt.machine.stack],
            h.pre_validate)>>

\* step that calls pre_validate and goes on whatever it answers
step_ignores_pre_validate(rt, opc, imm, h) ==
    IF inspect(rt.machine, opc)
    THEN after_pre_validate(rt, opc, imm, h, PreValidate(rt, opc, h))
    ELSE after_pre_validate(rt, NONE, imm, h, <<>>)

step(rt, opc, imm, h) ==
    IF inspect(rt.machine, opc)
    THEN IF h.pre_validate.tag = "Err"
         THEN after_pre_validate(
                  [rt EXCEPT !.machine = exit(rt.machine, Error(h.pre_validate.error)),
                             !.status = StatusErr(Error(h.pre_validate.error))],
                  opc, imm, h, PreValidate(rt, opc, h))
         ELSE after_pre_validate(rt, opc, imm, h, PreValidate(rt, opc, h))
    ELSE after_pre_validate(rt, NONE, imm, h, <<>>)

----------------------------------------------------------------------------
(* The handler's answers *)

Addresses == {4}
Interrupts == {"interrupt1", "interrupt2"}

CreateAddressResults ==
    {[tag |-> "Ok", address |-> a] : a \in Addresses} \cup {ResErr(e) : e \in HostErrors}
CreateResults ==
    {[tag |-> "Exit", reason |-> r] : r \in ChildReasons}
    \cup {[tag |-> "Trap", interrupt |-> i] : i \in Interrupts}
    \cup {ResErr(e) : e \in HostErrors}
CallResults ==
    {[tag |-> "Exit", reason |-> r, data |-> d] : r \in ChildReasons, d \in ReturnDatas}
    \cup {[tag |-> "Trap", interrupt |-> i] : i \in Interrupts}
    \cup {ResErr(e) : e \in HostErrors}

\* answers to the calls an opcode does not make
H0 == [pre_validate |-> ResOk, is_recoverable |-> FALSE, set_storage |-> ResOk,
       log |-> ResOk, balance |-> 0, transfer |-> ResOk, mark_delete |-> ResOk,
       create_address |-> ResErr("Other"), create |-> ResErr("Other"),
       call |-> ResErr("Other")]

----------------------------------------------------------------------------
(* The code: instruction blocks.  Operands(opc) lists, first popped first,  *)
(* the sets the operands of opc are drawn from.                             *)

Operands(opc) ==
    CASE opc = "RETURNDATACOPY" -> <<{0, 1, BigWord}, {0, 1}, {0, 1, BigWord}>>
      [] opc = "SSTORE" -> <<{1}, {0, 1}>>
      [] opc \in LogOps -> SubSeq(<<{0, BigWord}, {1}, {11}, {12}, {13}, {14}>>,
                                  1, 2 + LogN(opc))
      [] opc = "SUICIDE" -> <<{BigWord}>>
      [] opc = "SHA3" -> <<{0, BigWord}, {1}>>
      [] opc = "CREATE" -> <<{0, 1}, {0, BigWord}, {1}>>
      [] opc = "CREATE2" -> <<{0, 1}, {0, BigWord}, {1}, {0, 1}>>
      [] opc \in {"CALL", "CALLCODE"} ->
            <<{0, USIZE_MAX, BigWord}, {BigWord}, {0, 1}, {0}, {1}, {0, 1}, {1, BigWord}>>
      [] opc \in {"DELEGATECALL", "STATICCALL"} ->
            <<{0, USIZE_MAX, BigWord}, {BigWord}, {0}, {1}, {0, 1}, {1, BigWord}>>
      [] OTHER -> <<>>

Instr(opc, imms) == [op |-> opc, imms |-> imms]

\* pushes of the first j operands of opc, deepest first, then opc
Block(opc, j) ==
    [i \in 1..j |-> Instr("PUSH", Operands(opc)[j + 1 - i])] \o <<Instr(opc, {0})>>

\* the numbers of operands a block pushes for opc: all of them or none, and
\* for LOGn also the offset and the length without the topics
Pushed(opc) ==
    {0, Len(Operands(opc))} \cup (IF opc \in LogOps THEN {2} ELSE {})

Blocks ==
    UNION {{Block(opc, j) : j \in Pushed(opc)} : opc \in Opcodes \ {"PUSH"}}

----------------------------------------------------------------------------
(* State machine *)

Contexts == {[address |-> 2, caller |-> 3, apparent_value |-> 5]}

\* Runtime::new
Init ==
    /\ machine = new_machine
    /\ status = StatusOk
    /\ return_data_buffer = <<>>
    /\ context \in Contexts
    /\ program = <<>>
    /\ fetched = 0
    /\ running = FALSE
    /\ suspended = [tag |-> "None"]
    /\ panicked = FALSE
    /\ opcode = NONE
    /\ hcalls = <<>>
    /\ ret = [tag |-> "None"]
    /\ twin = [machine |-> new_machine, status |-> StatusOk, return_data_buffer |-> <<>>,
               program |-> <<>>, opcode |-> NONE, hcalls |-> <<>>,
               ret |-> [tag |-> "None"], by |-> "new"]

Rt(oc) == [machine |-> machine, status |-> status,
           return_data_buffer |-> return_data_buffer, context |-> context,
           config |-> config, overflow_checks |-> oc]

\* the second runtime
TwinRt(oc) == [machine |-> twin.machine, status |-> twin.status,
               return_data_buffer |-> twin.return_data_buffer, context |-> context,
               config |-> config, overflow_checks |-> oc]

\* the code that is left once the machine m has run the head of prog
Rest(m, prog) == IF m.position.tag = "Err" \/ prog = <<>> THEN <<>> ELSE Tail(prog)

\* Runtime::step on the second runtime, while the first is driven from
\* entry point e: one expansion r of step!, whose value is returned as it is
TwinStep(e, prog, r) ==
    [machine |-> r.machine, status |-> r.status,
     return_data_buffer |-> r.return_data_buffer,
     program |-> Rest(r.machine, prog), opcode |-> r.opcode, hcalls |-> r.hcalls,
     ret |-> r.ret, by |-> e]

\* run returns after one expansion, whatever the expansion yields
loops_never(e, tag) == FALSE

\* the loop of Runtime::run: an expansion that yields () is followed by the
\* next one; step returns after one expansion
loops(e, tag) == e = "run" /\ tag = "Ok"

\* the out_offset and out_len operands of the call opcode opc on the stack s
OutRegion(s, opc) ==
    LET k == IF opc \in {"CALL", "CALLCODE"} THEN 6 ELSE 5
    IN  IF opc \in CallOps /\ HasN(s, k + 1)
        THEN [offset |-> Peek(s, k), len |-> Peek(s, k + 1)]
        ELSE [offset |-> 0, len |-> 0]

\* the instructions the position can be at: the rest of the current block,
\* or a next block
Progs ==
    IF machine.position.tag = "Err" THEN {}
    ELSE IF program # <<>> THEN {program}
    ELSE IF fetched < MaxBlocks THEN Blocks
    ELSE {}

\* one expansion of step! from entry point e (step returns after it, run
\* loops while it makes progress) with prog the code from the position on
Expand(e, prog, imm, h, oc) ==
    LET opc == IF prog = <<>> THEN NONE ELSE Head(prog).op IN
    /\ ~panicked
    /\ suspended.tag = "None"
    /\ running => e = "run"
    /\ \E r \in {step(Rt(oc), opc, imm, h)}, t \in {step(TwinRt(oc), opc, imm, h)} :
        /\ machine' = r.machine
        /\ status' = r.status
        /\ return_data_buffer' = r.return_data_buffer
        /\ context' = context
        /\ program' = Rest(r.machine, prog)
        /\ fetched' = IF program = <<>> /\ prog # <<>> THEN fetched + 1 ELSE fetched
        /\ opcode' = r.opcode
        /\ hcalls' = r.hcalls
        /\ running' = loops(e, r.ret.tag)
        /\ ret' = IF loops(e, r.ret.tag) THEN [tag |-> "Pending"] ELSE r.ret
        /\ twin' = TwinStep(e, prog, t)
        /\ panicked' = (r.ret.tag = "Panic")
        /\ suspended' = IF r.ret.tag = "Trap"
                        THEN [tag |-> r.ret.kind, out |-> OutRegion(machine.stack, opc)]
                        ELSE [tag |-> "None"]

\* pre_validate rejects the opcode
PreValidateFails(e) ==
    \E prog \in Progs, err \in HostErrors :
        Expand(e, prog, 0, [H0 EXCEPT !.pre_validate = ResErr(err)], FALSE)

\* inspect() finds no opcode: the position is past the end of the code, or
\* the machine has exited
NoOpcode(e) ==
    /\ program = <<>>
    /\ Expand(e, <<>>, 0, H0, FALSE)

Pure(e) ==
    \E prog \in Progs :
        /\ Head(prog).op \in {"PUSH", "POP", "STOP"}
        /\ \E imm \in Head(prog).imms : Expand(e, prog, imm, H0, FALSE)

Sha3(e) ==
    \E prog \in Progs :
        /\ Head(prog).op = "SHA3"
        /\ Expand(e, prog, 0, H0, FALSE)

ReturnData(e) ==
    \E prog \in Progs :
        /\ Head(prog).op \in {"RETURNDATASIZE", "RETURNDATACOPY"}
        /\ Expand(e, prog, 0, H0, FALSE)

Sstore(e) ==
    \E prog \in Progs, r \in UnitResults, rec \in BOOLEAN :
        /\ Head(prog).op = "SSTORE"
        /\ Expand(e, prog, 0, [H0 EXCEPT !.set_storage = r, !.is_recoverable = rec], FALSE)

Log(e) ==
    \E prog \in Progs, r \in UnitResults, rec \in BOOLEAN :
        /\ Head(prog).op \in LogOps
        /\ Expand(e, prog, 0, [H0 EXCEPT !.log = r, !.is_recoverable = rec], FALSE)

Suicide(e) ==
    \E prog \in Progs, b \in {0, 1}, t \in UnitResults, d \in UnitResults, rec \in BOOLEAN :
        /\ Head(prog).op = "SUICIDE"
        /\ Expand(e, prog, 0,
                  [H0 EXCEPT !.balance = b, !.transfer = t, !.mark_delete = d,
                             !.is_recoverable = rec],
                  FALSE)

Create(e) ==
    \E prog \in Progs, a \in CreateAddressResults, c \in CreateResults, rec \in BOOLEAN :
        /\ Head(prog).op \in CreateOps
        /\ Expand(e, prog, 0,
                  [H0 EXCEPT !.create_address = a, !.create = c, !.is_recoverable = rec],
                  FALSE)

Call(e) ==
    \E prog \in Progs, c \in CallResults, rec \in BOOLEAN, oc \in BOOLEAN :
        /\ Head(prog).op \in CallOps
        /\ Expand(e, prog, 0, [H0 EXCEPT !.call = c, !.is_recoverable = rec], oc)

Macro(e) ==
    \/ PreValidateFails(e)
    \/ NoOpcode(e)
    \/ Pure(e)
    \/ Sha3(e)
    \/ ReturnData(e)
    \/ Sstore(e)
    \/ Log(e)
    \/ Suicide(e)
    \/ Create(e)
    \/ Call(e)

\* Runtime::step
Step == ~running /\ Macro("step")

\* Runtime::run: the loop of step! expansions, one per transition
Run == Macro("run")

\* the machine m once the child call's outcome (ok, d) is written over the
\* placeholder and into the output region o
resolved_call(m, o, ok, d) ==
    [m EXCEPT !.stack = Append(DropN(m.stack, 1), IF ok THEN 1 ELSE 0),
              !.memory = IF FitsUsize(o.offset) /\ FitsUsize(o.len) /\ SetOk(o.offset, o.len)
                         THEN set(m.memory, o.offset, d, o.len)
                         ELSE m.memory]

\* the machine m once the child create's outcome (ok, a) is written over the
\* placeholder
resolved_create(m, ok, a) ==
    [m EXCEPT !.stack = Append(DropN(m.stack, 1), IF ok THEN a ELSE 0)]

\* the resolver feeds the outcome of the child call back into the frame
ResolveCall ==
    /\ suspended.tag = "Call"
    /\ \E ok \in BOOLEAN, d \in ReturnDatas :
        /\ return_data_buffer' = d
        /\ machine' = resolved_call(machine, suspended.out, ok, d)
        /\ twin' = [twin EXCEPT !.return_data_buffer = d,
                                !.machine = resolved_call(twin.machine, suspended.out, ok, d),
                                !.ret = [tag |-> "Resolved"], !.by = "resolve"]
    /\ suspended' = [tag |-> "None"]
    /\ ret' = [tag |-> "Resolved"]
    /\ UNCHANGED <<status, context, program, fetched, running, panicked, opcode, hcalls>>

\* the resolver feeds the outcome of the child create back into the frame
ResolveCreate ==
    /\ suspended.tag = "Create"
    /\ \E ok \in BOOLEAN, a \in Addresses, d \in ReturnDatas :
        /\ return_data_buffer' = d
        /\ machine' = resolved_create(machine, ok, a)
        /\ twin' = [twin EXCEPT !.return_data_buffer = d,
                                !.machine = resolved_create(twin.machine, ok, a),
                                !.ret = [tag |-> "Resolved"], !.by = "resolve"]
    /\ suspended' = [tag |-> "None"]
    /\ ret' = [tag |-> "Resolved"]
    /\ UNCHANGED <<status, context, program, fetched, running, panicked, opcode, hcalls>>

Next == Step \/ Run \/ ResolveCall \/ ResolveCreate

Spec == Init /\ [][Next]_vars

----------------------------------------------------------------------------
(* Properties *)

\* number of operands the opcode pops when none is missing
Arity(opc) ==
    CASE opc \in {"CALL", "CALLCODE"} -> 7
      [] opc \in {"DELEGATECALL", "STATICCALL"} -> 6
      [] opc = "CREATE" -> 3
      [] opc = "CREATE2" -> 4
      [] opc = "SSTORE" -> 2
      [] opc \in LogOps -> 2 + LogN(opc)
      [] opc = "SUICIDE" -> 1
      [] opc = "RETURNDATACOPY" -> 3
      [] opc = "SHA3" -> 2
      [] OTHER -> 0

\* the invocation made progress: step returned Ok, or run went on looping
Progress(r) == r.tag \in {"Ok", "Pending"}

\* the positions in the handler calls hc of the calls of f that failed
FailedCalls(hc, fs) ==
    {i \in DOMAIN hc : hc[i].fn \in fs /\ hc[i].result.tag = "Err"}

\* C1: once an invocation of step or run has returned Exit(reason), every
\* later invocation returns Exit with the same reason, calls the handler not
\* at all and leaves stack, memory, return_data_buffer and status unchanged.
C1_ExitIsSticky ==
    [][ret.tag = "Exit" =>
            /\ ret' = ret
            /\ hcalls' = <<>>
            /\ machine' = machine
            /\ return_data_buffer' = return_data_buffer
            /\ status' = status]_vars

\* a frame that exited with Suicided and was invoked again
C1_Witness ==
    /\ ret = RetExit(Succeed("Suicided"))
    /\ status = StatusErr(Succeed("Suicided"))
    /\ hcalls = <<>>

\* C2: a CALL-family opcode the host completes at once, and whose output
\* write succeeds, pushes 1 when the child's exit reason is a success and 0
\* when it is a failure.
C2_CallPushesChildSuccess ==
    (/\ opcode \in CallOps
     /\ Progress(ret)
     /\ Len(hcalls) = 2
     /\ hcalls[2].fn = "call"
     /\ hcalls[2].result.tag = "Exit")
    => Top(machine.stack) = (IF hcalls[2].result.reason.ok THEN 1 ELSE 0)

\* C3: a CREATE or CREATE2 the host completes at once pushes the created
\* address when the exit reason is a success and zero when it is a failure.
C3_CreatePushesChildSuccess ==
    (/\ opcode \in CreateOps
     /\ Progress(ret)
     /\ Len(hcalls) = 3
     /\ hcalls[3].fn = "create"
     /\ hcalls[3].result.tag = "Exit")
    => Top(machine.stack) = (IF hcalls[3].result.reason.ok
                             THEN hcalls[2].result.address ELSE 0)

\* C4: RETURNDATACOPY(memOff, dataOff, len) with dataOff + len beyond the
\* length of return_data_buffer exits the frame with an error and writes no
\* byte to memory.
C4_ReturnDataCopyOutOfRange ==
    [][(/\ suspended.tag = "None"
        /\ opcode' = "RETURNDATACOPY"
        /\ hcalls'[1].result.tag = "Ok"
        /\ HasN(machine.stack, 3)
        /\ Peek(machine.stack, 2) + Peek(machine.stack, 3) > Len(return_data_buffer))
       => (/\ ret'.tag = "Exit"
           /\ ~ret'.exit.ok
           /\ machine'.memory = machine.memory)]_vars

\* the last expansion ran a CALL-family opcode that the host completed at once
CallCompleted ==
    /\ opcode \in CallOps
    /\ ret.tag # "Resolved"
    /\ Len(hcalls) >= 2
    /\ hcalls[2].fn = "call"
    /\ hcalls[2].result.tag = "Exit"

\* C5: after a CALL-family opcode the host completes at once, whatever the
\* child's exit reason and whether or not the output write succeeds,
\* return_data_buffer is exactly the bytes of that completion, and a
\* RETURNDATASIZE that follows pushes their length.
C5_ReturnDataFresh ==
    /\ [](CallCompleted => return_data_buffer = hcalls[2].result.data)
    /\ [][(/\ CallCompleted
           /\ Progress(ret)
           /\ opcode' = "RETURNDATASIZE"
           /\ Progress(ret'))
          => Top(machine'.stack) = Len(hcalls[2].result.data)]_vars

\* a child that failed returned one byte, the output write failed, and the
\* buffer holds the byte
C5_Witness ==
    /\ CallCompleted
    /\ Len(hcalls) = 3
    /\ ~hcalls[2].result.reason.ok
    /\ hcalls[2].result.data = <<1>>
    /\ return_data_buffer = <<1>>

\* C6: the gas handed to handler.call is requested_gas + call_stipend, as an
\* exact sum, for CALL and CALLCODE with a non-zero value, and requested_gas
\* otherwise.
C6_StipendIsExactSum ==
    [][(/\ suspended.tag = "None"
        /\ opcode' \in CallOps
        /\ Len(hcalls') >= 2
        /\ hcalls'[2].fn = "call")
       => hcalls'[2].args.target_gas =
            Peek(machine.stack, 1)
            + (IF opcode' \in {"CALL", "CALLCODE"} /\ Peek(machine.stack, 3) # 0
               THEN call_stipend ELSE 0)]_vars

\* C7: when there is a current opcode, the step calls handler.pre_validate
\* with the context, the opcode and the stack before anything else; when
\* pre_validate fails, that invocation returns Exit(error), status is
\* Err(error), the machine has taken no step and no other handler call is
\* made.
C7_PreValidateFirst ==
    [][suspended.tag = "None" =>
            /\ opcode' # NONE =>
                    /\ hcalls' # <<>>
                    /\ hcalls'[1].fn = "pre_validate"
                    /\ hcalls'[1].args =
                          [context |-> context, opcode |-> opcode',
                           stack |-> machine.stack]
            /\ (hcalls' # <<>> /\ hcalls'[1].result.tag = "Err") =>
                    /\ Len(hcalls') = 1
                    /\ ret' = RetExit(Error(hcalls'[1].result.error))
                    /\ status' = StatusErr(Error(hcalls'[1].result.error))
                    /\ machine'.position = PositionErr(Error(hcalls'[1].result.error))
                    /\ machine'.stack = machine.stack
                    /\ machine'.memory = machine.memory
                    /\ return_data_buffer' = return_data_buffer]_vars

\* pre_validate rejected a CALL whose seven operands are on the stack
C7_Witness ==
    /\ opcode = "CALL"
    /\ hcalls # <<>>
    /\ hcalls[1].result.tag = "Err"
    /\ Len(machine.stack) = 7
    /\ ret.tag = "Exit"

\* C8: SUICIDE reads the balance of context.address, transfers that whole
\* balance from context.address to the popped target, calls mark_delete of
\* context.address only after the transfer succeeded and then exits with
\* Suicided; a failed transfer exits with its error without mark_delete, a
\* failed mark_delete exits with its error.
C8_SuicideOrder ==
    (/\ opcode = "SUICIDE"
     /\ hcalls[1].result.tag = "Ok"
     /\ hcalls[1].args.stack # <<>>)
    => /\ Len(hcalls) >= 3
       /\ hcalls[2].fn = "balance"
       /\ hcalls[2].args.address = context.address
       /\ hcalls[3].fn = "transfer"
       /\ hcalls[3].args = [source |-> context.address,
                            target |-> AddressOf(Top(hcalls[1].args.stack)),
                            value |-> hcalls[2].result.value]
       /\ IF hcalls[3].result.tag = "Err"
          THEN /\ Len(hcalls) = 3
               /\ ret = RetExit(Error(hcalls[3].result.error))
          ELSE /\ Len(hcalls) = 4
               /\ hcalls[4].fn = "mark_delete"
               /\ hcalls[4].args.address = context.address
               /\ ret = IF hcalls[4].result.tag = "Err"
                        THEN RetExit(Error(hcalls[4].result.error))
                        ELSE RetExit(Succeed("Suicided"))

\* a SUICIDE that transferred a balance of 1 and exited with Suicided
C8_Witness ==
    /\ opcode = "SUICIDE"
    /\ Len(hcalls) = 4
    /\ hcalls[2].result.value = 1
    /\ hcalls[3].args.value = 1
    /\ hcalls[4].result.tag = "Ok"
    /\ ret = RetExit(Succeed("Suicided"))

\* C9: when create_address, create or call answers with an error, the opcode
\* pushes exactly one zero word in place of its operands; then the step
\* makes progress with status Ok if is_recoverable() is true, and returns
\* Exit with the host's error if it is false.
C9_HostErrorPolicy ==
    [][(/\ suspended.tag = "None"
        /\ FailedCalls(hcalls', {"create_address", "create", "call"}) # {})
       => LET n == Len(hcalls')
              e == hcalls'[n - 1].result.error
          IN  /\ FailedCalls(hcalls', {"create_address", "create", "call"}) = {n - 1}
              /\ hcalls'[n].fn = "is_recoverable"
              /\ machine'.stack = Append(DropN(machine.stack, Arity(opcode')), 0)
              /\ IF hcalls'[n].result.value
                 THEN Progress(ret') /\ status' = StatusOk
                 ELSE ret' = RetExit(Error(e)) /\ status' = StatusErr(Error(e))]_vars

\* a CREATE2 whose create_address failed recoverably left a zero and went on
C9_Witness ==
    /\ opcode = "CREATE2"
    /\ Len(hcalls) = 3
    /\ hcalls[2].fn = "create_address"
    /\ hcalls[2].result.tag = "Err"
    /\ hcalls[3].result.value
    /\ Top(machine.stack) = 0
    /\ ret = RetOk
    /\ status = StatusOk

\* C10: an error answered by set_storage, log, transfer or mark_delete ends
\* the frame with that error whatever is_recoverable() would say, and no word
\* is pushed.
C10_StateErrorsAreFatal ==
    [][(/\ suspended.tag = "None"
        /\ FailedCalls(hcalls', {"set_storage", "log", "transfer", "mark_delete"}) # {})
       => LET n == Len(hcalls')
              e == hcalls'[n].result.error
          IN  /\ FailedCalls(hcalls', {"set_storage", "log", "transfer", "mark_delete"}) = {n}
              /\ ret' = RetExit(Error(e))
              /\ status' = StatusErr(Error(e))
              /\ machine'.stack = DropN(machine.stack, Arity(opcode'))]_vars

\* a LOG2 whose log failed ended the frame with the host's error
C10_Witness ==
    /\ opcode = "LOG2"
    /\ Len(hcalls) = 2
    /\ hcalls[2].fn = "log"
    /\ hcalls[2].result.tag = "Err"
    /\ ret = RetExit(Error(hcalls[2].result.error))
    /\ machine.stack = <<>>

\* C11: step or run returns Trap only for CREATE, CREATE2 or a CALL-family
\* opcode whose handler.create / handler.call answered with a trap; a create
\* trap gives a Create resolve and a call trap a Call resolve, each carrying
\* the host's interrupt; every other opcode ends in progress or Exit.
C11_TrapOnlyFromCallOrCreate ==
    /\ ret.tag = "Trap" =>
          /\ opcode \in CallOps \cup CreateOps
          /\ hcalls[Len(hcalls)].fn = (IF opcode \in CallOps THEN "call" ELSE "create")
          /\ hcalls[Len(hcalls)].result.tag = "Trap"
          /\ ret = RetTrap(IF opcode \in CallOps THEN "Call" ELSE "Create",
                           hcalls[Len(hcalls)].result.interrupt)
    /\ opcode \notin CallOps \cup CreateOps => ret.tag \in {"None", "Ok", "Pending", "Exit"}

\* a CREATE2 whose handler.create trapped and that returned a Create resolve
C11_Witness ==
    /\ opcode = "CREATE2"
    /\ ret.tag = "Trap"
    /\ ret.kind = "Create"
    /\ hcalls[3].result.tag = "Trap"

\* C12: the context, transfer and static flag handed to handler.call are,
\* for CALL: {to, self.address, value}, transfer self -> to of value, not
\* static; for CALLCODE: {self.address, self.address, value}, transfer
\* self -> self of value, not static; for DELEGATECALL: {self.address,
\* self.caller, self.apparent_value}, no transfer, not static; for
\* STATICCALL: {to, self.address, 0}, no transfer, static; and the context
\* of the calling frame stays as it was.
C12_CallSchemeContexts ==
    (/\ opcode \in CallOps
     /\ Len(hcalls) >= 2
     /\ hcalls[2].fn = "call")
    => LET self == hcalls[1].args.context
           to == AddressOf(Peek(hcalls[1].args.stack, 2))
           value == Peek(hcalls[1].args.stack, 3)
           a == hcalls[2].args
       IN  /\ context = self
           /\ CASE opcode = "CALL" ->
                    /\ a.context = [address |-> to, caller |-> self.address,
                                    apparent_value |-> value]
                    /\ a.transfer = [tag |-> "Some", source |-> self.address,
                                     target |-> to, value |-> value]
                    /\ ~a.is_static
                [] opcode = "CALLCODE" ->
                    /\ a.context = [address |-> self.address, caller |-> self.address,
                                    apparent_value |-> value]
                    /\ a.transfer = [tag |-> "Some", source |-> self.address,
                                     target |-> self.address, value |-> value]
                    /\ ~a.is_static
                [] opcode = "DELEGATECALL" ->
                    /\ a.context = [address |-> self.address, caller |-> self.caller,
                                    apparent_value |-> self.apparent_value]
                    /\ a.transfer = [tag |-> "None"]
                    /\ ~a.is_static
                [] OTHER ->
                    /\ a.context = [address |-> to, caller |-> self.address,
                                    apparent_value |-> 0]
                    /\ a.transfer = [tag |-> "None"]
                    /\ a.is_static

\* a DELEGATECALL reached handler.call with the caller and the value of the
\* calling frame
C12_Witness ==
    /\ opcode = "DELEGATECALL"
    /\ Len(hcalls) >= 2
    /\ hcalls[2].fn = "call"
    /\ hcalls[2].args.context = [address |-> 2, caller |-> 3, apparent_value |-> 5]
    /\ hcalls[2].args.transfer = NoTransfer

\* the last expansion ran a CREATE2 whose handler.create_address succeeded
Create2Allocated ==
    /\ opcode = "CREATE2"
    /\ Len(hcalls) >= 3
    /\ hcalls[2].fn = "create_address"
    /\ hcalls[2].result.tag = "Ok"
    /\ hcalls[3].fn = "create"

\* the low bits of Keccak256(0xff, address, salt, Keccak256(init code)), with
\* salt and init code read from the operands of the CREATE2
DerivedAddress ==
    AddressOf(Keccak256(<<255, context.address, Peek(hcalls[1].args.stack, 4),
                          KeccakSlice(get(machine.memory, Peek(hcalls[1].args.stack, 2),
                                          Peek(hcalls[1].args.stack, 3)))>>))

\* C14 (as claimed): for every CREATE2 whose create_address succeeds, the
\* created address (child context address, transfer target, address given to
\* handler.create, word pushed on success) is the address derived from
\* context.address, the salt and the hash of the init code.
C14_CreatedAddressIsDerived ==
    Create2Allocated
    => /\ hcalls[3].args.address = DerivedAddress
       /\ hcalls[3].args.context.address = DerivedAddress
       /\ hcalls[3].args.transfer.target = DerivedAddress
       /\ (hcalls[3].result.tag = "Exit" /\ hcalls[3].result.reason.ok /\ Progress(ret))
             => Top(machine.stack) = DerivedAddress

\* C14 (amended): for every CREATE2 that reaches create_address, the scheme
\* handed to the host is Fixed(address derived from context.address, the salt
\* and the hash of the init code, and from nothing else); when create_address
\* succeeds, the address it answered is the child context address, the
\* transfer target, the address given to handler.create and the word pushed
\* when the create exits at once with success.
C14_SchemeIsDerivedAddressIsHosts ==
    (/\ opcode = "CREATE2"
     /\ Len(hcalls) >= 2
     /\ hcalls[2].fn = "create_address")
    => /\ hcalls[2].args.scheme = [tag |-> "Fixed", address |-> DerivedAddress]
       /\ hcalls[2].args.address = context.address
       /\ Create2Allocated
             => /\ hcalls[3].args.address = hcalls[2].result.address
                /\ hcalls[3].args.context.address = hcalls[2].result.address
                /\ hcalls[3].args.transfer.target = hcalls[2].result.address
                /\ (/\ hcalls[3].result.tag = "Exit"
                    /\ hcalls[3].result.reason.ok
                    /\ Progress(ret))
                      => Top(machine.stack) = hcalls[2].result.address

\* a CREATE2 with salt 1 that the host completed with success at the address
\* it allocated
C14_Witness ==
    /\ Create2Allocated
    /\ Peek(hcalls[1].args.stack, 4) = 1
    /\ hcalls[3].result.tag = "Exit"
    /\ hcalls[3].result.reason.ok
    /\ ret = RetOk
    /\ Top(machine.stack) = hcalls[2].result.address
    /\ hcalls[2].result.address # DerivedAddress

\* C15: whenever step or run has returned, status is Err(reason) exactly
\* when the inner machine has exited with that reason, and a returned
\* Exit(reason) comes with both set to that reason.
C15_StatusIffMachineExited ==
    /\ (status.tag = "Err") <=> (machine.position.tag = "Err")
    /\ status.tag = "Err" => status.exit = machine.position.exit
    /\ ret.tag = "Exit" => /\ status = StatusErr(ret.exit)
                           /\ machine.position = PositionErr(ret.exit)

\* a POP of the empty stack: the inner machine exited with StackUnderflow
\* and the step returned it
C15_Witness ==
    /\ opcode = "POP"
    /\ ret = RetExit(Error("StackUnderflow"))
    /\ status = StatusErr(Error("StackUnderflow"))
    /\ machine.position = PositionErr(Error("StackUnderflow"))

\* C16: whenever step or run has returned a Trap, the top of the stack is
\* the zero placeholder, all operands of the opcode are popped, status is Ok
\* and the inner machine has not exited.
C16_TrapLeavesPlaceholder ==
    ret.tag = "Trap"
    => /\ Top(machine.stack) = 0
       /\ machine.stack = Append(DropN(hcalls[1].args.stack, Arity(opcode)), 0)
       /\ status = StatusOk
       /\ machine.position = PositionOk

\* a CALLCODE on a stack of exactly its seven operands trapped
C16_Witness ==
    /\ opcode = "CALLCODE"
    /\ ret.tag = "Trap"
    /\ Len(hcalls[1].args.stack) = 7
    /\ machine.stack = <<0>>

\* the places, counted from the top of the stack, of the operands of opc
\* that are decoded to a native index
UsizeOperands(opc) ==
    CASE opc = "SHA3" \/ opc \in LogOps -> {1, 2}
      [] opc \in CreateOps -> {2, 3}
      [] opc \in {"CALL", "CALLCODE"} -> {1, 4, 5, 6, 7}
      [] opc \in {"DELEGATECALL", "STATICCALL"} -> {1, 3, 4, 5, 6}
      [] OTHER -> {}

\* C17: when an offset, length or gas operand of SHA3, LOGn, CREATE, CREATE2
\* or a CALL-family opcode does not fit a native index, the step returns Exit
\* with an error, nothing is pushed and no host operation is invoked,
\* whatever is_recoverable() would answer.
C17_OperandDecodingIsFatal ==
    (/\ hcalls # <<>>
     /\ hcalls[1].result.tag = "Ok"
     /\ \E p \in UsizeOperands(opcode) :
            /\ HasN(hcalls[1].args.stack, p)
            /\ ~FitsUsize(Peek(hcalls[1].args.stack, p)))
    => /\ ret.tag = "Exit"
       /\ ~ret.exit.ok
       /\ Len(hcalls) = 1
       /\ Len(machine.stack) < Len(hcalls[1].args.stack)
       /\ machine.stack = SubSeq(hcalls[1].args.stack, 1, Len(machine.stack))

\* C18: LOGn pops offset and length and then n topics and calls handler.log
\* once with context.address, the topics in the order they were popped and
\* the memory slice [offset, offset + length); when the stack runs out while
\* popping, the step exits with the stack error and handler.log is not
\* called.
C18_LogPopsAndEmits ==
    [][(/\ suspended.tag = "None"
        /\ opcode' \in LogOps
        /\ hcalls'[1].result.tag = "Ok")
       => LET n == LogN(opcode')
              s == machine.stack
              d == Len(machine.stack)
              logs == {i \in DOMAIN hcalls' : hcalls'[i].fn = "log"}
          IN  IF d < 2
              THEN ret' = RetExit(Error("StackUnderflow")) /\ logs = {}
              ELSE IF ~FitsUsize(s[d]) \/ ~FitsUsize(s[d - 1])
              THEN logs = {}
              ELSE IF d < 2 + n
              THEN ret' = RetExit(Error("StackUnderflow")) /\ logs = {}
              ELSE /\ logs = {2}
                   /\ Len(hcalls') = 2
                   /\ hcalls'[2].args =
                         [address |-> context.address,
                          topics |-> [i \in 1..n |-> s[d - 1 - i]],
                          data |-> get(machine.memory, s[d], s[d - 1])]
                   /\ machine'.stack = SubSeq(s, 1, d - 2 - n)]_vars

\* a LOG3 emitted its three topics in the order popped
C18_Witness ==
    /\ opcode = "LOG3"
    /\ Len(hcalls) = 2
    /\ hcalls[2].fn = "log"
    /\ hcalls[2].args.topics = <<11, 12, 13>>
    /\ hcalls[2].args.address = context.address
    /\ ret = RetOk

\* C19: a step changes return_data_buffer only when it runs a CALL-family
\* opcode whose handler.call exits at once; a call that errs or traps, a
\* CREATE or CREATE2 in every outcome and every other opcode leave it as it
\* was, and a RETURNDATASIZE reports the length it had.
C19_OnlyCompletedCallsChangeReturnData ==
    [][suspended.tag = "None" =>
            /\ return_data_buffer' # return_data_buffer =>
                    /\ opcode' \in CallOps
                    /\ Len(hcalls') >= 2
                    /\ hcalls'[2].fn = "call"
                    /\ hcalls'[2].result.tag = "Exit"
            /\ (opcode' = "RETURNDATASIZE" /\ Progress(ret')) =>
                    Top(machine'.stack) = Len(return_data_buffer)]_vars

\* a CREATE that the host completed after a call had returned one byte: the
\* buffer still holds the byte
C19_Witness ==
    /\ opcode = "CREATE"
    /\ Len(hcalls) = 3
    /\ hcalls[3].fn = "create"
    /\ hcalls[3].result.tag = "Exit"
    /\ return_data_buffer = <<1>>

\* C20: a CALL-family or CREATE / CREATE2 execution that reaches the host
\* request pushes exactly one word onto what is left below its operands, in
\* every outcome: the depth afterwards is the depth before minus 6 for CALL
\* and CALLCODE, minus 5 for DELEGATECALL and STATICCALL, minus 2 for CREATE
\* and minus 3 for CREATE2, and stays within the stack limit.
C20_OneResultWord ==
    (/\ opcode \in CallOps \cup CreateOps
     /\ Len(hcalls) >= 2
     /\ hcalls[2].fn \in {"call", "create_address"})
    => LET before == hcalls[1].args.stack
           delta == CASE opcode \in {"CALL", "CALLCODE"} -> 6
                      [] opcode \in {"DELEGATECALL", "STATICCALL"} -> 5
                      [] opcode = "CREATE" -> 2
                      [] OTHER -> 3
       IN  /\ Len(machine.stack) = Len(before) - delta
           /\ Len(machine.stack) >= 1
           /\ Len(machine.stack) <= config.stack_limit
           /\ SubSeq(machine.stack, 1, Len(machine.stack) - 1)
                 = SubSeq(before, 1, Len(before) - delta - 1)

\* a CALL whose completed child's output could not be written and whose
\* error was not recoverable: one word replaced the seven operands
C20_Witness ==
    /\ opcode = "CALL"
    /\ Len(hcalls) = 3
    /\ hcalls[2].result.tag = "Exit"
    /\ ~hcalls[3].result.value
    /\ ret.tag = "Exit"
    /\ Len(machine.stack) = Len(hcalls[1].args.stack) - 6

====
